---- MODULE Spec2Model ----
(***************************************************************************)
(* A model of fin_report_app.py: the aggregator process_data, the two      *)
(* exporters generate_excel_report and generate_pdf_report, and the        *)
(* script main that Streamlit re-executes on every widget interaction.     *)
(*                                                                         *)
(* A DataFrame read from a file is a record [has_date, rows]: has_date     *)
(* says whether the table has a 'date' column, rows is the sequence of its *)
(* rows.  A date is a day number; MonthOf buckets days into calendar       *)
(* months as pd.Grouper(key='date', freq='M') does.  A pivoted table is a  *)
(* record [index, columns, data]: index the set of months that occur,      *)
(* columns the sequence of column labels in pandas' sorted order, data the *)
(* cells that exist (a cell that is missing is not in DOMAIN data).        *)
(***************************************************************************)
EXTENDS Integers, Sequences, FiniteSets, TLC

VARIABLES
    income_df, expense_df, inventory_df, cash_flow_df,  \* the four input tables
    financial_data,                                     \* what process_data returned
    pc,                 \* position of the script run; "done" when it has ended
    use_sample_data,    \* the checkbox "Use Sample Data"
    show_sample_data,   \* the button "Show Sample Data": its value in this run
    generate_report,    \* the button "Generate Report": its value in this run
    files,              \* the four file_uploader widgets' values
    uploaders,          \* whether the last run rendered the file uploaders
    offered,            \* whether the last run rendered the Generate Report button
    message,            \* st.success / st.warning / st.error shown by the upload step
    charts,             \* the figures generate_charts made
    divisions,          \* the denominators of the divisions the run performed
    excel_book,         \* the workbook generate_excel_report builds in memory
    excel_file,         \* the file at temp_excel
    pdf_pages,          \* the pages generate_pdf_report has saved
    pdf_file,           \* the file at temp_pdf
    links,              \* the download links the run rendered
    exc                 \* the function an unhandled exception escaped from

tables == <<income_df, expense_df, inventory_df, cash_flow_df>>

widgets == <<use_sample_data, show_sample_data, generate_report, files>>

rendered == <<uploaders, offered, message>>

exports == <<excel_book, excel_file, pdf_pages, pdf_file, links>>

vars == <<tables, financial_data, pc, widgets, rendered, charts, divisions, exports, exc>>

---------------------------------------------------------------------------
(* Bounds of the model *)

\* days 1..MaxDay occur as dates
MaxDay == 3
\* a calendar month is DaysPerMonth days long in the model
DaysPerMonth == 2
\* amounts, quantities and cost prices are 0..MaxAmount
MaxAmount == 1
\* categories, products per table that occur in the aggregator's inputs
MaxCats == 2
\* rows of the input table that is varied
MaxRows == 2
\* rows of the income table given to the spreadsheet export
MaxExcelRows == 4

---------------------------------------------------------------------------
(* The data model: column labels in the order pandas sorts them *)

IncomeCategories == <<"Interest Income", "Other Income", "Product Sales", "Service Fees">>

ExpenseCategories ==
    <<"Cost of Goods Sold", "Employee Salaries", "Marketing", "Rent", "Supplies", "Utilities">>

Products == <<"Product A", "Product B", "Product C", "Product D", "Product E">>

FlowTypes == <<"Inflow", "Outflow">>

Range(s) == {s[i] : i \in 1..Len(s)}

Days == 1..MaxDay

Amounts == 0..MaxAmount

MonthOf(d) == ((d - 1) \div DaysPerMonth) + 1

\* A float cell of a Series: a number, or NaN
Num(v) == [nan |-> FALSE, val |-> v]

NaN == [nan |-> TRUE, val |-> 0]

---------------------------------------------------------------------------
(* pandas operations used by process_data *)

\* df[name]: a column of the table
Column(rows, name) == [i \in 1..Len(rows) |-> rows[i][name]]

\* Series * Series, element by element
SeriesMul(a, b) == [i \in 1..Len(a) |-> a[i] * b[i]]

\* Series.sum() over the elements at the positions in keep
SeriesSum(vals, keep) ==
    LET S[i \in 0..Len(vals)] ==
            IF i = 0 THEN 0
            ELSE S[i - 1] + (IF i \in keep THEN vals[i] ELSE 0)
    IN  S[Len(vals)]

\* the rows of a group: those of month m whose key column holds c
GroupRows(rows, key, m, c) ==
    {i \in 1..Len(rows) : MonthOf(rows[i].date) = m /\ rows[i][key] = c}

\* GroupBySum with .count() in the place of .sum()
GroupByCount(rows, key, vals) ==
    LET groups == {<<MonthOf(rows[i].date), rows[i][key]>> : i \in 1..Len(rows)}
    IN  [g \in groups |-> Cardinality(GroupRows(rows, key, g[1], g[2]))]

\* df.groupby([pd.Grouper(key='date', freq='M'), key]) ... .sum(): one entry
\* per (month, key value) that occurs in the rows, the sum of the group's vals
GroupBySum(rows, key, vals) ==
    LET groups == {<<MonthOf(rows[i].date), rows[i][key]>> : i \in 1..Len(rows)}
    IN  [g \in groups |-> SeriesSum(vals, GroupRows(rows, key, g[1], g[2]))]

\* Unstack without fill_value: a cell with no group stays missing
UnstackNoFill(grouped, order, fill_value) ==
    LET idx  == {g[1] : g \in DOMAIN grouped}
        seen == {g[2] : g \in DOMAIN grouped}
    IN  [index   |-> idx,
         columns |-> SelectSeq(order, LAMBDA c : c \in seen),
         data    |-> grouped]

\* Series.unstack(fill_value): the last index level becomes the columns, in
\* sorted order; a cell with no group gets fill_value
Unstack(grouped, order, fill_value) ==
    LET idx  == {g[1] : g \in DOMAIN grouped}
        seen == {g[2] : g \in DOMAIN grouped}
    IN  [index   |-> idx,
         columns |-> SelectSeq(order, LAMBDA c : c \in seen),
         data    |-> [k \in idx \X seen |->
                        IF k \in DOMAIN grouped THEN grouped[k] ELSE fill_value]]

\* DataFrame.sum(axis=1): per month, the sum over the columns' cells; a
\* missing cell is skipped (skipna)
SumAxis1(df) ==
    [m \in df.index |->
        LET S[i \in 0..Len(df.columns)] ==
                IF i = 0 THEN 0
                ELSE S[i - 1] + (IF <<m, df.columns[i]>> \in DOMAIN df.data
                                 THEN df.data[<<m, df.columns[i]>>] ELSE 0)
        IN  S[Len(df.columns)]]

\* Series - Series: pandas aligns the two indexes on their union; a label
\* that one side lacks gives NaN
SeriesSub(a, b) ==
    [m \in (DOMAIN a) \cup (DOMAIN b) |->
        IF m \in DOMAIN a /\ m \in DOMAIN b THEN Num(a[m] - b[m]) ELSE NaN]

\* x['quantity'] * x['cost_price']
Value(rows) == SeriesMul(Column(rows, "quantity"), Column(rows, "cost_price"))

EmptyFrame == [index |-> {}, columns |-> <<>>, data |-> <<>>]

\* monthly_cash_flow['Net'] = monthly_cash_flow['Inflow'] - monthly_cash_flow['Outflow']:
\* a new last column; a month in which one of the two cells is missing gets
\* no Net cell
WithNet(mcf) ==
    LET both == {m \in mcf.index : /\ <<m, "Inflow">> \in DOMAIN mcf.data
                                    /\ <<m, "Outflow">> \in DOMAIN mcf.data}
    IN  [index   |-> mcf.index,
         columns |-> Append(mcf.columns, "Net"),
         data    |-> [k \in (DOMAIN mcf.data) \cup (both \X {"Net"}) |->
                        IF k[2] = "Net"
                        THEN mcf.data[<<k[1], "Inflow">>] - mcf.data[<<k[1], "Outflow">>]
                        ELSE mcf.data[k]]]

Raised(kind) ==
    [raised |-> kind,
     monthly_income |-> EmptyFrame, total_income |-> 0,
     monthly_expenses |-> EmptyFrame, total_expenses |-> 0,
     monthly_pnl |-> <<>>,
     monthly_inventory_value |-> EmptyFrame, total_inventory_value |-> 0,
     monthly_cash_flow |-> EmptyFrame]

NoResult == Raised("not run")

\* process_data: the returned dict, or the exception that escapes from it
process_data(income, expense, inventory, cash_flow) ==
    IF ~income.has_date \/ ~expense.has_date \/ ~inventory.has_date \/ ~cash_flow.has_date
    THEN Raised("KeyError")
    ELSE
    LET monthly_income   == Unstack(GroupBySum(income.rows, "category", Column(income.rows, "amount")),
                                    IncomeCategories, 0)
        monthly_expenses == Unstack(GroupBySum(expense.rows, "category", Column(expense.rows, "amount")),
                                    ExpenseCategories, 0)
        monthly_inventory_value ==
                            Unstack(GroupBySum(inventory.rows, "product", Value(inventory.rows)),
                                    Products, 0)
        monthly_cash_flow == Unstack(GroupBySum(cash_flow.rows, "type", Column(cash_flow.rows, "amount")),
                                    FlowTypes, 0)
    IN  IF "Inflow" \notin Range(monthly_cash_flow.columns)
           \/ "Outflow" \notin Range(monthly_cash_flow.columns)
        THEN Raised("KeyError")
        ELSE [raised |-> "none",
              monthly_income |-> monthly_income,
              total_income |-> SeriesSum(Column(income.rows, "amount"), 1..Len(income.rows)),
              monthly_expenses |-> monthly_expenses,
              total_expenses |-> SeriesSum(Column(expense.rows, "amount"), 1..Len(expense.rows)),
              monthly_pnl |-> SeriesSub(SumAxis1(monthly_income), SumAxis1(monthly_expenses)),
              monthly_inventory_value |-> monthly_inventory_value,
              total_inventory_value |-> SeriesSum(Value(inventory.rows), 1..Len(inventory.rows)),
              monthly_cash_flow |-> WithNet(monthly_cash_flow)]

---------------------------------------------------------------------------
(* generate_excel_report: the workbook, its sheets and the income chart *)

Letters ==
    <<"A", "B", "C", "D", "E", "F", "G", "H", "I", "J", "K", "L", "M",
      "N", "O", "P", "Q", "R", "S", "T", "U", "V", "W", "X", "Y", "Z">>

\* chr(code): a column letter for 65..90, some other character otherwise
Chr(code) == IF code \in 65..90 THEN Letters[code - 64] ELSE "?"

\* DataFrame.to_excel(writer, sheet_name): row 1 of the sheet, left to right:
\* the index label in column A, then the table's columns in their order
ToExcelHeader(df) == <<"date">> \o df.columns

\* the text of the header cell in the column of that letter; "" when the
\* sheet has nothing there
HeaderAt(header, letter) ==
    IF \E k \in 1..Len(header) : Letters[k] = letter
    THEN header[CHOOSE k \in 1..Len(header) : Letters[k] = letter]
    ELSE ""

\* lines 286-291: for col_num, category in enumerate(columns, 2): the series
\* of the income column chart, each by the column letter it refers to
IncomeSeries(columns) ==
    [i \in 1..Len(columns) |->
        LET col_num == 2 + (i - 1)
        IN  [name_cell |-> Chr(65 + col_num), value_col |-> Chr(65 + col_num),
             category_col |-> "A"]]

\* what generate_excel_report does inside its with block, in order
ExcelSteps ==
    <<"Summary", "Income", "Expenses", "P&L", "Inventory", "Cash Flow",
      "pnl_chart", "income_chart">>

NoBook == [done |-> <<>>, income_header |-> <<>>, income_series |-> <<>>]

NoFileOnDisk == [exists |-> FALSE, readable |-> FALSE, content |-> <<>>]

\* what generate_pdf_report saves, in order
PdfSteps ==
    <<"title", "income_by_category", "expenses_by_category", "pnl_over_time",
      "inventory_by_product", "cash_flow", "summary">>

ChartNames ==
    {"income_by_category", "expenses_by_category", "pnl_over_time",
     "inventory_by_product", "cash_flow"}

---------------------------------------------------------------------------
(* The input tables: bounded sets of rows, the sample data, the uploads *)

FirstN(s, n) == Range(SubSeq(s, 1, IF n < Len(s) THEN n ELSE Len(s)))

IncomeRows  == [date : Days, category : FirstN(IncomeCategories, MaxCats), amount : Amounts]

ExpenseRows == [date : Days, category : FirstN(ExpenseCategories, MaxCats), amount : Amounts]

InventoryRows ==
    [date : Days, product : FirstN(Products, MaxCats), quantity : {0, MaxAmount},
     cost_price : {1, MaxAmount}, selling_price : {MaxAmount}]

CashFlowRows == [date : Days, type : Range(FlowTypes), category : {"Rent"}, amount : Amounts]

\* the tables with n rows drawn from a set of rows
TablesOf(rowset, n) == [1..n -> rowset]

Frame(rows) == [has_date |-> TRUE, rows |-> rows]

NoFrame == [has_date |-> FALSE, rows |-> <<>>]

Cycle(s, d) == s[((d - 1) % Len(s)) + 1]

\* generate_data: seeded, so the same four tables in every run: one row per
\* day, here of the days 1..MaxDay
generate_data ==
    [income    |-> Frame([d \in Days |->
                    [date |-> d, category |-> Cycle(IncomeCategories, d),
                     amount |-> MaxAmount]]),
     expense   |-> Frame([d \in Days |->
                    [date |-> d, category |-> Cycle(ExpenseCategories, d),
                     amount |-> MaxAmount]]),
     inventory |-> Frame([d \in Days |->
                    [date |-> d, product |-> Cycle(Products, d), quantity |-> MaxAmount,
                     cost_price |-> MaxAmount, selling_price |-> MaxAmount]]),
     cash_flow |-> Frame([d \in Days |->
                    [date |-> d, type |-> Cycle(FlowTypes, d), category |-> "Rent",
                     amount |-> MaxAmount]])]

TableNames == {"income", "expense", "inventory", "cash_flow"}

NoFile == [format |-> "none", rows |-> <<>>]

\* What a user may upload for a table: a file whose rows parse ("ok"), a file
\* without a date column ("no_date"), a file whose date column does not
\* parse ("bad_date").
Uploads(t) ==
    LET sample == generate_data[t].rows
        other  == CASE t = "income"    -> {<<[date |-> 1, category |-> IncomeCategories[1],
                                               amount |-> 0]>>}
                    [] t = "cash_flow" -> {<<[date |-> 1, type |-> "Inflow",
                                               category |-> "Rent", amount |-> MaxAmount]>>}
                    [] OTHER           -> {}
    IN  {[format |-> "ok", rows |-> r] : r \in {sample} \cup other}
        \cup {[format |-> f, rows |-> sample] : f \in {"no_date", "bad_date"}}

\* lines 361-369: pd.read_csv / pd.read_excel, then pd.to_datetime on the
\* date column when the table has one
ReadFile(f) == [has_date |-> f.format # "no_date", rows |-> f.rows]

\* pd.to_datetime raises on a date column that does not parse
ReadRaises(f) == f.format = "bad_date"

---------------------------------------------------------------------------
(* main: one run of the script, from the top to the Generate Report button *)

AllUploaded == \A t \in TableNames : files[t] # NoFile

FreshRun ==
    /\ financial_data' = NoResult
    /\ charts' = {}
    /\ divisions' = {}
    /\ excel_book' = NoBook
    /\ excel_file' = NoFileOnDisk
    /\ pdf_pages' = <<>>
    /\ pdf_file' = NoFileOnDisk
    /\ links' = {}
    /\ exc' = "none"

SetTables(t) ==
    /\ income_df' = t.income
    /\ expense_df' = t.expense
    /\ inventory_df' = t.inventory
    /\ cash_flow_df' = t.cash_flow

NoTables == [t \in TableNames |-> NoFrame]

\* lines 303-383.  Every run starts from the top of the module: line 38 makes
\* a new temporary directory, so no file of an earlier run is at temp_excel
\* or temp_pdf.  A widget that a run does not render loses its value.
Main ==
    /\ pc = "main"
    /\ FreshRun
    /\ IF ~use_sample_data /\ ~show_sample_data
       THEN /\ uploaders' = TRUE
            /\ files' = files
            /\ IF AllUploaded
               THEN IF \E t \in TableNames : ReadRaises(files[t])
                    THEN /\ message' = "Error reading files"
                         /\ SetTables(NoTables)
                         /\ offered' = FALSE
                         /\ pc' = "done"
                    ELSE /\ message' = "Files uploaded successfully!"
                         /\ SetTables([t \in TableNames |-> ReadFile(files[t])])
                         /\ offered' = TRUE
                         /\ pc' = IF generate_report THEN "process" ELSE "done"
               ELSE /\ message' = "Please upload all required data files"
                    /\ SetTables(NoTables)
                    /\ offered' = FALSE
                    /\ pc' = "done"
       ELSE /\ uploaders' = FALSE
            /\ files' = [t \in TableNames |-> NoFile]
            /\ message' = "none"
            /\ SetTables(generate_data)
            /\ offered' = TRUE
            /\ pc' = IF generate_report THEN "process" ELSE "done"
    /\ UNCHANGED <<use_sample_data, show_sample_data, generate_report>>

\* line 386: financial_data = process_data(...); no handler is around it
Process ==
    /\ pc = "process"
    /\ financial_data' = process_data(income_df, expense_df, inventory_df, cash_flow_df)
    /\ IF financial_data'.raised = "none"
       THEN pc' = "charts" /\ exc' = exc
       ELSE pc' = "done" /\ exc' = "process_data"
    /\ UNCHANGED <<tables, widgets, rendered, charts, divisions, exports>>

\* line 389: charts = generate_charts(financial_data)
Charts ==
    /\ pc = "charts"
    /\ charts' = ChartNames
    /\ pc' = "metrics"
    /\ UNCHANGED <<tables, financial_data, widgets, rendered, divisions, exports, exc>>

\* lines 392-404: the four metrics; the Net Profit delta divides by
\* total_income.  The totals are numpy scalars: a zero denominator gives
\* inf or nan, no exception.
Metrics ==
    /\ pc = "metrics"
    /\ divisions' = divisions \cup {financial_data.total_income}
    /\ pc' = "excel"
    /\ UNCHANGED <<tables, financial_data, widgets, rendered, charts, exports, exc>>

---------------------------------------------------------------------------
(* generate_excel_report, line 435 *)

\* the step the writer is at
ExcelStep == ExcelSteps[Len(excel_book.done) + 1]

\* one statement of the with block: a sheet written, or a chart added
ExcelWrite ==
    /\ pc = "excel"
    /\ Len(excel_book.done) < Len(ExcelSteps)
    /\ excel_book' =
         [done |-> Append(excel_book.done, ExcelStep),
          income_header |->
              IF ExcelStep = "Income" THEN ToExcelHeader(financial_data.monthly_income)
              ELSE excel_book.income_header,
          income_series |->
              IF ExcelStep = "income_chart"
              THEN IncomeSeries(financial_data.monthly_income.columns)
              ELSE excel_book.income_series]
    /\ UNCHANGED <<tables, financial_data, pc, widgets, rendered, charts, divisions,
                   excel_file, pdf_pages, pdf_file, links, exc>>

\* what ExcelWriter.__exit__ leaves at the path: close() saves the workbook
\* as it stands, whether or not the block raised
ExcelSaved(book) == [exists |-> TRUE, readable |-> TRUE, content |-> book.done]

\* a statement of the with block raises: __exit__ runs, the exception goes
\* on through main, which has no handler
ExcelRaise ==
    /\ pc = "excel"
    /\ Len(excel_book.done) < Len(ExcelSteps)
    /\ excel_file' = ExcelSaved(excel_book)
    /\ exc' = "generate_excel_report"
    /\ pc' = "done"
    /\ UNCHANGED <<tables, financial_data, widgets, rendered, charts, divisions,
                   excel_book, pdf_pages, pdf_file, links>>

\* the end of the with block
ExcelClose ==
    /\ pc = "excel"
    /\ Len(excel_book.done) = Len(ExcelSteps)
    /\ excel_file' = ExcelSaved(excel_book)
    /\ pc' = "pdf"
    /\ UNCHANGED <<tables, financial_data, widgets, rendered, charts, divisions,
                   excel_book, pdf_pages, pdf_file, links, exc>>

---------------------------------------------------------------------------
(* generate_pdf_report, line 436 *)

\* pdf.savefig of the next page
PdfSave ==
    /\ pc = "pdf"
    /\ Len(pdf_pages) < Len(PdfSteps)
    /\ pdf_pages' = Append(pdf_pages, PdfSteps[Len(pdf_pages) + 1])
    /\ UNCHANGED <<tables, financial_data, pc, widgets, rendered, charts, divisions,
                   excel_book, excel_file, pdf_file, links, exc>>

\* what PdfPages.__exit__ leaves at the path: close() finalizes the document
\* with the pages saved so far
PdfSaved(pages) == [exists |-> TRUE, readable |-> TRUE, content |-> pages]

\* a savefig raises: __exit__ runs, the exception goes on through main.
\* With no page saved yet, whether a file is at the path depends on the
\* Matplotlib version.
PdfRaise ==
    /\ pc = "pdf"
    /\ Len(pdf_pages) < Len(PdfSteps)
    /\ \/ pdf_file' = PdfSaved(pdf_pages)
       \/ pdf_pages = <<>> /\ pdf_file' = NoFileOnDisk
    /\ exc' = "generate_pdf_report"
    /\ pc' = "done"
    /\ UNCHANGED <<tables, financial_data, widgets, rendered, charts, divisions,
                   excel_book, excel_file, pdf_pages, links>>

\* the end of the with block
PdfClose ==
    /\ pc = "pdf"
    /\ Len(pdf_pages) = Len(PdfSteps)
    /\ pdf_file' = PdfSaved(pdf_pages)
    /\ pc' = "links"
    /\ UNCHANGED <<tables, financial_data, widgets, rendered, charts, divisions,
                   excel_book, excel_file, pdf_pages, links, exc>>

\* lines 438-459: both files are read and both download links rendered
Links ==
    /\ pc = "links"
    /\ links' = {"excel", "pdf"}
    /\ pc' = "done"
    /\ UNCHANGED <<tables, financial_data, widgets, rendered, charts, divisions,
                   excel_book, excel_file, pdf_pages, pdf_file, exc>>

Pipeline ==
    \/ Process
    \/ Charts
    \/ Metrics
    \/ ExcelWrite
    \/ ExcelRaise
    \/ ExcelClose
    \/ PdfSave
    \/ PdfRaise
    \/ PdfClose
    \/ Links

---------------------------------------------------------------------------
(* The user: each interaction starts a new run of the script; a button is   *)
(* true only in the run its click starts                                    *)

Interact ==
    /\ pc = "done"
    /\ pc' = "main"
    /\ UNCHANGED <<tables, financial_data, rendered, charts, divisions, exports, exc>>

ToggleUseSample ==
    /\ Interact
    /\ use_sample_data' = ~use_sample_data
    /\ show_sample_data' = FALSE
    /\ generate_report' = FALSE
    /\ files' = files

ClickShowSample ==
    /\ Interact
    /\ show_sample_data' = TRUE
    /\ generate_report' = FALSE
    /\ UNCHANGED <<use_sample_data, files>>

Upload ==
    /\ Interact
    /\ uploaders
    /\ \E t \in TableNames : \E f \in Uploads(t) \cup {NoFile} :
          /\ f # files[t]
          /\ files' = [files EXCEPT ![t] = f]
    /\ show_sample_data' = FALSE
    /\ generate_report' = FALSE
    /\ use_sample_data' = use_sample_data

ClickGenerate ==
    /\ Interact
    /\ offered
    /\ generate_report' = TRUE
    /\ show_sample_data' = FALSE
    /\ UNCHANGED <<use_sample_data, files>>

Init ==
    /\ income_df = NoFrame
    /\ expense_df = NoFrame
    /\ inventory_df = NoFrame
    /\ cash_flow_df = NoFrame
    /\ financial_data = NoResult
    /\ pc = "main"
    /\ use_sample_data = FALSE
    /\ show_sample_data = FALSE
    /\ generate_report = FALSE
    /\ files = [t \in TableNames |-> NoFile]
    /\ uploaders = FALSE
    /\ offered = FALSE
    /\ message = "none"
    /\ charts = {}
    /\ divisions = {}
    /\ excel_book = NoBook
    /\ excel_file = NoFileOnDisk
    /\ pdf_pages = <<>>
    /\ pdf_file = NoFileOnDisk
    /\ links = {}
    /\ exc = "none"

Next ==
    \/ Main
    \/ Pipeline
    \/ ToggleUseSample
    \/ ClickShowSample
    \/ Upload
    \/ ClickGenerate

Spec == Init /\ [][Next]_vars

---------------------------------------------------------------------------
(* The aggregator on bounded inputs *)

\* the state of a run that has reached line 386 with the tables it was given
AtProcess ==
    /\ financial_data = NoResult
    /\ pc = "process"
    /\ use_sample_data = FALSE
    /\ show_sample_data = FALSE
    /\ generate_report = TRUE
    /\ files = [t \in TableNames |-> NoFile]
    /\ uploaders = TRUE
    /\ offered = TRUE
    /\ message = "Files uploaded successfully!"
    /\ charts = {}
    /\ divisions = {}
    /\ excel_book = NoBook
    /\ excel_file = NoFileOnDisk
    /\ pdf_pages = <<>>
    /\ pdf_file = NoFileOnDisk
    /\ links = {}
    /\ exc = "none"

RowsOf(t) ==
    CASE t = "income"    -> IncomeRows
      [] t = "expense"   -> ExpenseRows
      [] t = "inventory" -> InventoryRows
      [] t = "cash_flow" -> CashFlowRows

\* the fewest rows of a table: only the inventory table may have none
MinRows(t) == IF t = "inventory" THEN 0 ELSE 1

\* the tables given for the inputs that are not varied: the sample table,
\* and for the cash flow also the table of a single Inflow row
Fixed(t) ==
    {generate_data[t]}
    \cup (IF t = "cash_flow"
          THEN {Frame(f.rows) : f \in {u \in Uploads(t) : u.format = "ok"}}
          ELSE {})

\* the tables given for the input that is varied: up to MaxRows rows
Varied(t) == {Frame(r) : r \in UNION {TablesOf(RowsOf(t), n) : n \in MinRows(t)..MaxRows}}

Inputs(t, varied) == IF t = varied THEN Varied(t) ELSE Fixed(t)

\* One of the four tables is any table of up to MaxRows rows, each of the
\* other three is one of the fixed tables.
InitAgg ==
    /\ \E varied \in TableNames :
          /\ income_df \in Inputs("income", varied)
          /\ expense_df \in Inputs("expense", varied)
          /\ inventory_df \in Inputs("inventory", varied)
          /\ cash_flow_df \in Inputs("cash_flow", varied)
    /\ AtProcess

SpecAgg == InitAgg /\ [][Process]_vars

---------------------------------------------------------------------------
(* The spreadsheet export on income tables of one to four categories *)

ExcelIncomeRows == [date : Days, category : Range(IncomeCategories), amount : {MaxAmount}]

InitExcel ==
    /\ \E n \in 1..MaxExcelRows :
          income_df \in {Frame(t) : t \in TablesOf(ExcelIncomeRows, n)}
    /\ expense_df = generate_data.expense
    /\ inventory_df = generate_data.inventory
    /\ cash_flow_df = generate_data.cash_flow
    /\ AtProcess

NextExcel ==
    \/ Process
    \/ Charts
    \/ Metrics
    \/ ExcelWrite
    \/ ExcelRaise
    \/ ExcelClose

SpecExcel == InitExcel /\ [][NextExcel]_vars

---------------------------------------------------------------------------
(* Properties of the aggregator, stated over the raw input rows *)

Returned == financial_data.raised = "none"

MonthsOf(rows) == {MonthOf(rows[i].date) : i \in 1..Len(rows)}

KeysOf(rows, key) == {rows[i][key] : i \in 1..Len(rows)}

HasRow(rows, key, m, c) ==
    \E i \in 1..Len(rows) : MonthOf(rows[i].date) = m /\ rows[i][key] = c

\* the amounts of the rows of month m (and of type ty, for cash flow), added up
RECURSIVE AmountOf(_, _)
AmountOf(rows, sel) ==
    IF sel = {} THEN 0
    ELSE LET i == CHOOSE x \in sel : TRUE
         IN  rows[i].amount + AmountOf(rows, sel \ {i})

MonthTotal(rows, m) == AmountOf(rows, {i \in 1..Len(rows) : MonthOf(rows[i].date) = m})

TypeTotal(rows, m, ty) ==
    AmountOf(rows, {i \in 1..Len(rows) : MonthOf(rows[i].date) = m /\ rows[i].type = ty})

\* the sum of all cells of a pivoted table
CellSum(df) ==
    LET T == SumAxis1(df)
        S[ms \in SUBSET df.index] ==
            IF ms = {} THEN 0
            ELSE LET m == CHOOSE x \in ms : TRUE IN T[m] + S[ms \ {m}]
    IN  S[df.index]

\* C1: for every month with a row in the income table or in the expense
\* table (also a month with rows in only one of them), monthly_pnl of that
\* month is the month's income minus the month's expenses, a table without
\* rows in the month counting 0.
C1_PnlEveryMonth ==
    Returned =>
        \A m \in MonthsOf(income_df.rows) \cup MonthsOf(expense_df.rows) :
            /\ m \in DOMAIN financial_data.monthly_pnl
            /\ financial_data.monthly_pnl[m] =
                   Num(MonthTotal(income_df.rows, m) - MonthTotal(expense_df.rows, m))

\* C2: for a non-empty income table, the cells of monthly_income over all
\* months and categories sum to total_income, which is the sum of the amount
\* column of the raw income rows.
C2_IncomeCellsSumToTotal ==
    (Returned /\ Len(income_df.rows) > 0) =>
        /\ CellSum(financial_data.monthly_income) = financial_data.total_income
        /\ financial_data.total_income = AmountOf(income_df.rows, 1..Len(income_df.rows))

\* C2's case: two income rows in different months and categories, both with
\* a positive amount, have been aggregated.
C2_Witness ==
    /\ Returned
    /\ Len(income_df.rows) = 2
    /\ financial_data.total_income = 2
    /\ Cardinality(financial_data.monthly_income.index) = 2
    /\ Len(financial_data.monthly_income.columns) = 2

\* C3: for every non-empty cash-flow table, whatever its mix of Inflow and
\* Outflow rows, process_data returns a monthly_cash_flow whose Net is Inflow
\* minus Outflow in every month, a type without rows in the month counting 0.
C3_NetForAnyMix ==
    (pc # "process" /\ Len(cash_flow_df.rows) > 0) =>
        /\ Returned
        /\ \A m \in MonthsOf(cash_flow_df.rows) :
              /\ <<m, "Net">> \in DOMAIN financial_data.monthly_cash_flow.data
              /\ financial_data.monthly_cash_flow.data[<<m, "Net">>] =
                     TypeTotal(cash_flow_df.rows, m, "Inflow")
                     - TypeTotal(cash_flow_df.rows, m, "Outflow")

\* a pivoted table of the rows has a row per month that occurs, a column per
\* key that occurs, and a cell for every month and column, 0 where no row of
\* the column's key falls in the month
PivotIsTotal(df, rows, key) ==
    /\ MonthsOf(rows) \subseteq df.index
    /\ KeysOf(rows, key) \subseteq Range(df.columns)
    /\ \A m \in df.index : \A c \in Range(df.columns) :
          /\ <<m, c>> \in DOMAIN df.data
          /\ (c \in KeysOf(rows, key) /\ ~HasRow(rows, key, m, c)) => df.data[<<m, c>>] = 0

\* C4: each pivoted table process_data returns (monthly_income,
\* monthly_expenses, monthly_inventory_value, monthly_cash_flow) has an
\* explicit cell for every month of the table and every category, product or
\* type with a row in some month, and the cell is 0 when no row of that
\* category falls in that month.
C4_PivotsAreTotal ==
    Returned =>
        /\ PivotIsTotal(financial_data.monthly_income, income_df.rows, "category")
        /\ PivotIsTotal(financial_data.monthly_expenses, expense_df.rows, "category")
        /\ PivotIsTotal(financial_data.monthly_inventory_value, inventory_df.rows, "product")
        /\ PivotIsTotal(financial_data.monthly_cash_flow, cash_flow_df.rows, "type")

\* C4's case: a returned monthly_income has a cell of a month and a category
\* that no income row falls in.
C4_Witness ==
    /\ Returned
    /\ \E m \in financial_data.monthly_income.index :
          \E c \in Range(financial_data.monthly_income.columns) :
              /\ ~HasRow(income_df.rows, "category", m, c)
              /\ financial_data.monthly_income.data[<<m, c>>] = 0

\* C5: called with an inventory table of zero rows and non-empty income,
\* expense and cash-flow tables, process_data raises no error and returns
\* total_inventory_value = 0.
C5_EmptyInventoryNoError ==
    (pc # "process" /\ inventory_df.rows = <<>>) =>
        /\ Returned
        /\ financial_data.total_inventory_value = 0

---------------------------------------------------------------------------
(* Properties of main and of the exporters *)

\* the run reads four uploaded files of which one has no date column or a
\* date column that does not parse
BadUpload ==
    /\ ~use_sample_data
    /\ ~show_sample_data
    /\ AllUploaded
    /\ \E t \in TableNames : files[t].format \in {"no_date", "bad_date"}

\* C6: in the upload path, when one of the four uploaded tables lacks the
\* date column or has a date column that does not parse, the run asked for a
\* report shows a data-format error and stops before aggregation:
\* process_data is not invoked and no exception escapes.
C6_FormatErrorsStopBeforeAggregation ==
    (BadUpload /\ pc # "main") =>
        /\ pc = "done"
        /\ exc = "none"
        /\ generate_report => message = "Error reading files"

\* C7: for a dataset whose total_income is 0, the Generate Report step
\* performs no division by total_income when it produces the net profit
\* margin delta.
C7_NoDivisionByZeroIncome ==
    (Returned /\ financial_data.total_income = 0) => 0 \notin divisions

\* the exporter raised after it had done some but not all of its steps
PartWay(done, steps) == 0 < Len(done) /\ Len(done) < Len(steps)

\* C8: when an exporter fails part-way through writing, no file that reads
\* as a valid report is at its target path.
C8_ExportsAtomic ==
    /\ (exc = "generate_excel_report" /\ PartWay(excel_book.done, ExcelSteps)) =>
           ~(excel_file.exists /\ excel_file.readable)
    /\ (exc = "generate_pdf_report" /\ PartWay(pdf_pages, PdfSteps)) =>
           ~(pdf_file.exists /\ pdf_file.readable)

\* C9: within one report generation a failing spreadsheet export does not
\* keep the document export from being run and produced, and a failing
\* document export does not keep the written spreadsheet from the caller.
C9_ExportsIndependent ==
    /\ (pc = "done" /\ exc = "generate_excel_report") => pdf_file.exists
    /\ (pc = "done" /\ exc = "generate_pdf_report") => "excel" \in links

\* C10: for every number of income categories, the i-th series of the income
\* column chart takes its name and its values from the Income sheet's column
\* that holds the i-th category of monthly_income.
C10_IncomeSeriesColumns ==
    "income_chart" \in Range(excel_book.done) =>
        /\ Len(excel_book.income_series) = Len(financial_data.monthly_income.columns)
        /\ \A i \in 1..Len(excel_book.income_series) :
              /\ HeaderAt(excel_book.income_header, excel_book.income_series[i].name_cell)
                     = financial_data.monthly_income.columns[i]
              /\ excel_book.income_series[i].value_col
                     = excel_book.income_series[i].name_cell

\* C11: over any sequence of runs of main, when a run offered the Generate
\* Report button and the user clicked it, the run that the click starts
\* calls process_data: a run started by that click never ends with
\* process_data not called.  (ClickGenerate is enabled only when the run
\* before it offered the button; generate_report is true only in the run
\* that the click starts.)
C11_GenerateClickReachesProcess ==
    (generate_report /\ pc = "done") => financial_data.raised # "not run"

====
